---- MODULE Spec2Model ----
(***************************************************************************)
(* Pixel Garden (src/vite.config.js): the App component, its animation     *)
(* effect (draw / handleResize / cleanup) and its event handlers.          *)
(*                                                                         *)
(* Numbers.  The code computes in doubles; the model computes in exact     *)
(* decimal fixed point:                                                    *)
(*   speed   in tenths           (speed 1   is 10)                         *)
(*   life    in units of 0.002   (life 0.02 is 10,  life 120 is 60000)     *)
(*   size    in units of 0.0001  (size 5    is 50000, 150 is 1500000)      *)
(*   hueBase and paletteSeed in tenths of the unit interval                *)
(* The size increment is truncated to the size unit.                       *)
(*                                                                         *)
(* React.  A seed is a heap object (an index of obj); an array of seeds is *)
(* a sequence of such indices.  The committed state is what the last       *)
(* render returned.  A handler of a discrete event (click, mousedown,      *)
(* touchstart, change) is rendered and committed at the end of the event.  *)
(* The file does not mount App, so the model covers both kinds of root:    *)
(*   legacy (ReactDOM.render): a setState issued from an animation-frame   *)
(*     callback is rendered and committed inside the call; the passive     *)
(*     effect of every commit (useEffect) runs in a later step;            *)
(*   concurrent (createRoot): a setState issued from an animation-frame    *)
(*     callback is queued and rendered by a later step; a handler that     *)
(*     runs before that step is rendered on the committed state, and its   *)
(*     setSeeds call is replayed after the queued ones when they are       *)
(*     rendered; the passive effect of a handler's commit runs at the end  *)
(*     of the event, that of a later render in a later step.               *)
(* With both roots a pending passive effect runs before the next render.   *)
(***************************************************************************)
EXTENDS Integers, Sequences, FiniteSets, TLC

\* ---------------------------------------------------------------- bounds
\* Number of user events (pointer, button, slider, checkbox, resize) explored
\* in one behaviour; clicks handled in one batch count as one.
MaxEvents == 2
\* Number of frames drawn while running explored in one behaviour.
MaxTicks == 2
\* How close to the life limit (in life units of 0.002) a seed is when the
\* liveness specification starts to follow it to its expiry.
DueMargin == 20

\* Values of the speed slider (tenths), a subset of 2..30.
SpeedDraws == {2, 30}
\* Values of the brush slider, a subset of 2..40.
BrushDraws == {12, 13}
\* Math.random() for paletteSeed (tenths).
PaletteDraws == {1, 7}
\* Math.random() * 0.6 of plantSeed's hue jitter (tenths).
JitterDraws == {3}
\* 2 + Math.random() * 6 of plantSeed (size units), a subset of 20000..79999.
SizeDraws == {50000}
\* Math.random().toString(36).slice(2, 9) of plantSeed.
IdDraws == {"a", "b"}
\* The mousedown and touchstart events (line 166), and the canvas's bounding rect.
PointerEvents ==
    {[touches |-> <<>>, clientX |-> 5, clientY |-> 6],
     [touches |-> <<[clientX |-> 5, clientY |-> 6]>>, clientX |-> 0, clientY |-> 0]}
RectDraws == {[left |-> 2, top |-> 1]}
\* clientWidth / clientHeight of the canvas, and devicePixelRatio.
ClientSizeDraws == {[w |-> 4, h |-> 3], [w |-> 0, h |-> 3]}
DprDraws == {2}
\* Math.random() of lines 54 and 57 (tenths), a subset of 0..9.
RandomDraws == {0, 5, 9}
\* ReactDOM.render(<App />) or createRoot().render(<App />): the file does not
\* mount the component itself.
Roots == {"legacy", "concurrent"}
\* Clicks on one button that React handles before it renders.
ClickDraws == {1, 2}
\* Frames at speed 1 that the first seed of a running garden saw before the
\* garden went to speed 3.
WarmupDraws == {3}

VARIABLES
    root,         \* how the build mounts App: a legacy or a concurrent React root
    mounted,      \* the component is mounted
    running,      \* useState(true)            line 19
    speed,        \* useState(1)               line 20
    brush,        \* useState(12)              line 21
    showGrid,     \* useState(false)           line 22
    seeds,        \* useState([])              line 23: the committed array
    paletteSeed,  \* useState(Math.random())   line 24
    obj,          \* the seed objects: obj[r] is { x, y, size, life, hueBase, id }
    queue,        \* setSeeds calls not yet rendered, and those to replay after them
    effPending,   \* the last commit changed a dependency; its effect has not run
    rafs,         \* pending requestAnimationFrame callbacks
    canvas,       \* backing buffer and transform of the canvas
    client,       \* layout size of the canvas element
    surface,      \* what the canvas shows
    removed,      \* history: seeds a frame has spliced out
    ticks,        \* history: frames drawn while running
    drawn,        \* history: what the last frame drawn could pass to drawPixel
    events,       \* history: user events handled
    cleared,      \* history: clear was invoked and no seed was planted since
    ev            \* history: the step just taken

vars == <<root, mounted, running, speed, brush, showGrid, seeds, paletteSeed, obj,
          queue, effPending, rafs, canvas, client, surface, removed, ticks,
          drawn, events, cleared, ev>>

\* ------------------------------------------------------------ growth step
LifeLimit == 60000
SizeLimit == 2200000
SizeCeiling == 1500000
BloomAge == 5000

\* Advance with s.life = 0.02 * speed for s.life += 0.02 * speed.
AdvanceLifeAssigned(s, sp) ==
    LET life2 == sp
        f10   == IF life2 < BloomAge THEN 10 ELSE 1
        size2 == s.size + (3 * sp * f10 * (SizeCeiling - s.size)) \div 150000
    IN  [s EXCEPT !.life = life2, !.size = size2]

\* Advance without the diminishing returns: size += 0.3 * speed * (1 or 0.1).
AdvanceNoTaper(s, sp) ==
    LET life2 == s.life + sp
        f10   == IF life2 < BloomAge THEN 10 ELSE 1
        size2 == s.size + 3 * sp * f10 * 10
    IN  [s EXCEPT !.life = life2, !.size = size2]

\* Advance with the test of line 51 reading the life before line 49.
AdvanceAgeBefore(s, sp) ==
    LET life2 == s.life + sp
        f10   == IF s.life < BloomAge THEN 10 ELSE 1
        size2 == s.size + (3 * sp * f10 * (SizeCeiling - s.size)) \div 150000
    IN  [s EXCEPT !.life = life2, !.size = size2]

\* lines 49-51: s.life += 0.02 * speed; s.size += (0.3 * speed) *
\* (1 - s.size / 150) * (s.life < 10 ? 1 : 0.1), the test reading the new life.
Advance(s, sp) ==
    LET life2 == s.life + sp
        f10   == IF life2 < BloomAge THEN 10 ELSE 1
        size2 == s.size + (3 * sp * f10 * (SizeCeiling - s.size)) \div 150000
    IN  [s EXCEPT !.life = life2, !.size = size2]

\* line 54 with Math.random() - 0.5 for Math.random().
SpawnCountCentered(s, sp, rnd) == ((1000 * (rnd - 5) + s.life) * sp) \div 200000

\* line 54: Math.floor((Math.random() + s.life * 0.05) * (speed * 0.5)); in
\* the model's units (rnd / 10 + life / 10000) * sp / 20, floored.
SpawnCount(s, sp, rnd) == ((1000 * rnd + s.life) * sp) \div 200000

\* line 57: Math.random() * s.size * 0.9, in size units.
Dist(s, rnd) == (9 * rnd * s.size) \div 100

\* line 60 with a pixel thrown up to 1.5 times the seed's size.
AlphaFarReach(s, rnd) ==
    LET a == 800 - (800 * ((15 * rnd * s.size) \div 100)) \div (s.size + 10000)
    IN  IF a > 1000 THEN 1000 ELSE a

\* line 60: Math.min(1, 0.8 * (1 - dist / (s.size + 1))), in thousandths.
Alpha(s, rnd) ==
    LET a == 800 - (800 * Dist(s, rnd)) \div (s.size + 10000)
    IN  IF a > 1000 THEN 1000 ELSE a

\* lines 54-62: the spawn counts one frame can compute for the seeds of o that
\* it iterates, and the alphas of the pixels it can then draw.
Spawned(live, o, sp) ==
    [counts |-> {SpawnCount(o[r], sp, rnd) : r \in live, rnd \in RandomDraws},
     alphas |-> {Alpha(o[r], rnd) : r \in {q \in live : \E d \in RandomDraws :
                                                        SpawnCount(o[q], sp, d) > 0},
                                    rnd \in RandomDraws}]

\* line 71
Expired(s) == s.life > LifeLimit \/ s.size > SizeLimit

\* n consecutive growth steps of one seed at one speed.
RECURSIVE Grown(_, _, _)
Grown(s, sp, n) ==
    IF n = 0 THEN s
    ELSE IF n = 1 THEN Advance(s, sp)
    ELSE LET m == n \div 2
         IN  \* the sets bind the half-way seed as a value
             CHOOSE g \in {Grown(h, sp, n - m) : h \in {Grown(s, sp, m)}} : TRUE

\* ------------------------------------------------------------ arrays
RECURSIVE Keep(_, _)
\* the array after the reverse loop's splices: the seeds of a that did not expire
Keep(a, o) ==
    IF a = <<>> THEN <<>>
    ELSE IF Expired(o[Head(a)]) THEN Keep(Tail(a), o)
         ELSE <<Head(a)>> \o Keep(Tail(a), o)

Members(a) == {a[i] : i \in 1..Len(a)}

\* ------------------------------------------------------------ the effect
\* A draw that reads the seeds array of the first render, as with seeds
\* missing from the dependency list of line 108.
ClosureOfMount(r, a, sp, b, g) ==
    [running |-> r, seeds |-> <<>>, same |-> FALSE, speed |-> sp, brush |-> b, showGrid |-> g]

\* The closure of one run of the effect: the values draw reads (line 28-35).
\* same: its seeds array is the committed array object.
Closure(r, a, sp, b, g) ==
    [running |-> r, seeds |-> a, same |-> TRUE, speed |-> sp, brush |-> b, showGrid |-> g]

\* lines 31-33
Sized(c, dpr) == [w |-> c.w * dpr, h |-> c.h * dpr, t |-> dpr]

RECURSIVE Untracked(_)
\* pending callbacks whose handle is not rafRef.current
Untracked(rs) ==
    IF rs = <<>> THEN <<>>
    ELSE IF Head(rs).tracked THEN Untracked(Tail(rs))
         ELSE <<Head(rs)>> \o Untracked(Tail(rs))

\* line 105: cancelAnimationFrame(rafRef.current)
Cleanup(rs) == Untracked(rs)

\* rafRef.current = requestAnimationFrame(draw): the handle rafRef held is overwritten
Schedule(rs, c) ==
    [i \in 1..Len(rs) |-> [rs[i] EXCEPT !.tracked = FALSE]] \o <<[c |-> c, tracked |-> TRUE]>>

\* line 95
Setup(rs, c) == Schedule(rs, c)

\* a commit installed another seeds array: no closure holds the committed array
Detached(rs) == [i \in 1..Len(rs) |-> [rs[i] EXCEPT !.c.same = FALSE]]

\* an in-place splice of the committed array is seen by every closure holding it
Spliced(rs, a) ==
    [i \in 1..Len(rs) |-> IF rs[i].c.same THEN [rs[i] EXCEPT !.c.seeds = a] ELSE rs[i]]

\* ------------------------------------------------------------ Init
Planted(x, y, sz, hue, id) ==
    [x |-> x, y |-> y, size |-> sz, life |-> 0, hueBase |-> hue, id |-> id]

\* A seed after n frames at speed 1, 1998 at speed 3 and 14 at speed 0.2.
Aged(s, n) == Grown(Grown(Grown(s, 10, n), 30, 1998), 2, 14)

\* A seed planted 165 frames before the garden went from speed 3 to speed 0.2.
Young(s) == Grown(Grown(s, 30, 165), 2, 14)

\* A garden on mount, or one that has been running: two seeds planted one
\* frame apart and a third planted much later, the latest first (line 163),
\* that have grown since.
\* the seeds of a garden that has been running
WarmRefs == {1, 2, 3}

Gardens ==
    {<<>>} \cup
    {<<Young(Planted(7, 2, 30000, 4, "c")),
       Aged(Planted(3, 5, 20000, 4, "b"), n - 1),
       Aged(Planted(3, 5, 50000, 4, "a"), n)>> : n \in WarmupDraws}

Init ==
    /\ root \in Roots
    /\ mounted = TRUE
    /\ running = TRUE
    /\ speed = 10
    /\ brush = 12
    /\ showGrid = FALSE
    /\ obj \in Gardens
    /\ seeds = [i \in 1..Len(obj) |-> i]
    /\ paletteSeed \in PaletteDraws
    /\ queue = <<>>
    /\ effPending = FALSE
    /\ client \in {c \in ClientSizeDraws : c.w > 0}
    /\ \E dpr \in DprDraws : canvas = Sized(client, dpr)
    /\ rafs = Setup(<<>>, Closure(running, seeds, speed, brush, showGrid))
    /\ surface = "blank"
    /\ removed = {}
    /\ ticks = 0
    /\ drawn = [counts |-> {}, alphas |-> {}]
    /\ events = 0
    /\ cleared = FALSE
    /\ ev = "mount"

\* ------------------------------------------------------------ React
\* the queued setSeeds calls applied in order, from the array a
RECURSIVE Applied(_, _)
Applied(q, a) ==
    IF q = <<>> THEN a
    ELSE Applied(Tail(q), IF Head(q).kind = "set" THEN Head(q).a ELSE <<Head(q).r>> \o a)

\* a commit installed another seeds array: no queued call holds the committed array
Uncur(q) == [i \in 1..Len(q) |-> [q[i] EXCEPT !.cur = FALSE]]

\* setSeeds(u) in a handler: rendered now; replayed later when calls are queued
Replay(q, u) == IF q = <<>> THEN q ELSE Append(Uncur(q), u)

\* One render and commit of the component with the state (r, a, sp, b, g, ps);
\* newArr: a is an array object other than the committed one.  The effect of
\* the previous commit, when it has not run yet, runs first; the dependency
\* list of line 108 decides whether this commit has an effect; sync: that
\* effect runs at the end of the event.  sf: the canvas as the handler left it.
Commit(r, a, newArr, sp, b, g, ps, sf, sync) ==
    LET changed == r # running \/ newArr \/ sp # speed \/ b # brush \/ g # showGrid
        rs1 == IF effPending
               THEN Setup(Cleanup(rafs), Closure(running, seeds, speed, brush, showGrid))
               ELSE rafs
        rs2 == IF newArr THEN Detached(rs1) ELSE rs1
        rs3 == IF changed /\ sync
               THEN Setup(Cleanup(rs2), Closure(r, a, sp, b, g))
               ELSE rs2
        ran == effPending \/ (changed /\ sync)
    IN  IF changed \/ ps # paletteSeed
        THEN /\ running' = r
             /\ seeds' = a
             /\ speed' = sp
             /\ brush' = b
             /\ showGrid' = g
             /\ paletteSeed' = ps
             /\ rafs' = rs3
             /\ effPending' = (changed /\ ~sync)
             /\ IF ran
                THEN /\ \E dpr \in DprDraws : canvas' = Sized(client, dpr)
                     /\ surface' = "blank"
                ELSE /\ canvas' = canvas
                     /\ surface' = sf
        ELSE /\ surface' = sf
             /\ UNCHANGED <<running, seeds, speed, brush, showGrid, paletteSeed,
                            rafs, effPending, canvas>>

\* React renders the queued setSeeds calls (line 90, and lines 163 and 178
\* replayed); a result that is the committed array itself changes nothing.
Render ==
    LET last == queue[Len(queue)]
    IN  /\ mounted
        /\ queue # <<>>
        /\ queue' = <<>>
        /\ Commit(running, Applied(queue, seeds), ~(last.kind = "set" /\ last.cur),
                  speed, brush, showGrid, paletteSeed, surface, FALSE)
        /\ ev' = "render"
        /\ UNCHANGED <<root, mounted, obj, client, removed, ticks, drawn, events, cleared>>

\* The effect of the last commit runs: cleanup of the previous run (lines
\* 104-107), then the body (lines 29-33, 95, 103).
FlushEffects ==
    /\ mounted
    /\ effPending
    /\ rafs' = Setup(Cleanup(rafs), Closure(running, seeds, speed, brush, showGrid))
    /\ effPending' = FALSE
    /\ \E dpr \in DprDraws : canvas' = Sized(client, dpr)
    /\ surface' = "blank"
    /\ ev' = "effect"
    /\ UNCHANGED <<root, mounted, running, speed, brush, showGrid, seeds, paletteSeed,
                   obj, queue, client, removed, ticks, drawn, events, cleared>>

\* ------------------------------------------------------------ draw
\* lines 35-93: the callback rafs[i] fires; the frame counter is left to the
\* specification.
Draw(i) ==
    LET c    == rafs[i].c
        rest == [k \in 1..(Len(rafs) - 1) |-> IF k < i THEN rafs[k] ELSE rafs[k + 1]]
        live == Members(c.seeds)
        o2   == [r \in DOMAIN obj |-> IF r \in live THEN Advance(obj[r], c.speed) ELSE obj[r]]
        kept == Keep(c.seeds, o2)
        gone == {r \in live : Expired(o2[r])}
        \* the committed array and the pending callbacks after the splices
        arr  == IF c.same THEN kept ELSE seeds
        rs   == IF c.same THEN Spliced(rest, kept) ELSE rest
        \* legacy root, line 90: the effect of the last commit runs first
        rs1  == IF effPending
                THEN Setup(Cleanup(rs), Closure(running, arr, speed, brush, showGrid))
                ELSE rs
    IN  /\ i \in 1..Len(rafs)
        /\ ev' = "frame"
        /\ IF ~c.running
           THEN /\ rafs' = rest
                /\ UNCHANGED <<obj, seeds, queue, surface, removed, drawn,
                               effPending, canvas>>
           ELSE /\ obj' = o2
                /\ drawn' = Spawned(live, o2, c.speed)
                /\ removed' = removed \cup gone
                /\ IF gone # {} /\ mounted /\ root = "legacy"
                   THEN \* setSeeds([...seeds]) is rendered and committed inside
                        \* line 90; line 92 runs after the commit
                        /\ seeds' = kept
                        /\ queue' = queue
                        /\ effPending' = TRUE
                        /\ rafs' = Schedule(Detached(rs1),
                                            [c EXCEPT !.seeds = kept, !.same = FALSE])
                        /\ IF effPending
                           THEN /\ \E dpr \in DprDraws : canvas' = Sized(client, dpr)
                                /\ surface' = "blank"
                           ELSE /\ canvas' = canvas
                                /\ surface' = "faded"
                   ELSE \* setSeeds([...seeds]) is queued; line 92
                        /\ seeds' = arr
                        /\ queue' = IF gone # {} /\ mounted
                                    THEN Append(queue, [kind |-> "set", a |-> kept, r |-> 0,
                                                        cur |-> FALSE])
                                    ELSE queue
                        /\ rafs' = Schedule(rs, [c EXCEPT !.seeds = kept])
                        /\ surface' = "faded"
                        /\ UNCHANGED <<effPending, canvas>>
        /\ UNCHANGED <<root, mounted, running, speed, brush, showGrid, paletteSeed,
                       client, events, cleared>>

\* draw, with at most MaxTicks frames drawn while running
Frame(i) ==
    /\ i \in 1..Len(rafs)
    /\ rafs[i].c.running => ticks < MaxTicks
    /\ ticks' = (IF rafs[i].c.running THEN ticks + 1 ELSE ticks)
    /\ Draw(i)

\* ------------------------------------------------------------ handlers
\* lines 151-164
PlantSeed(clientX, clientY, rect, sz, jitter, id) ==
    LET seed == Planted(clientX - rect.left, clientY - rect.top, sz,
                        (paletteSeed + jitter) % 10, id)
        ref  == Len(obj) + 1
    IN  /\ obj' = Append(obj, seed)
        /\ queue' = Replay(queue, [kind |-> "add", a |-> <<>>, r |-> ref, cur |-> FALSE])
        /\ \E sync \in {root = "concurrent"} :
              Commit(running, <<ref>> \o seeds, TRUE, speed, brush, showGrid,
                     paletteSeed, surface, sync)

\* handleCanvasDown reading e.clientX / e.clientY of a touch event too.
HandleCanvasDownMouseOnly(e, rect, sz, jitter, id) ==
    /\ mounted
    /\ events < MaxEvents
    /\ events' = events + 1
    /\ PlantSeed(e.clientX, e.clientY, rect, sz, jitter, id)
    /\ cleared' = FALSE
    /\ ev' = "plant"
    /\ UNCHANGED <<root, mounted, client, removed, ticks, drawn>>

\* lines 166-171
HandleCanvasDown(e, rect, sz, jitter, id) ==
    /\ mounted
    /\ events < MaxEvents
    /\ events' = events + 1
    /\ PlantSeed(IF e.touches # <<>> THEN e.touches[1].clientX ELSE e.clientX,
                 IF e.touches # <<>> THEN e.touches[1].clientY ELSE e.clientY,
                 rect, sz, jitter, id)
    /\ cleared' = FALSE
    /\ ev' = "plant"
    /\ UNCHANGED <<root, mounted, client, removed, ticks, drawn>>

\* lines 173-179
Clear ==
    /\ mounted
    /\ events < MaxEvents
    /\ events' = events + 1
    /\ queue' = Replay(queue, [kind |-> "set", a |-> <<>>, r |-> 0, cur |-> TRUE])
    /\ \E sync \in {root = "concurrent"} :
          Commit(running, <<>>, TRUE, speed, brush, showGrid, paletteSeed, "solid", sync)
    /\ cleared' = TRUE
    /\ ev' = "clear"
    /\ UNCHANGED <<root, mounted, obj, client, removed, ticks, drawn>>

\* line 196: setRunning(r => !r); if (!running) setRunning(true), queued n
\* times by handlers that all read the running of one render (cr); r is the
\* state the queued updates are applied to.
RECURSIVE Toggled(_, _, _)
Toggled(r, cr, n) ==
    IF n = 0 THEN r
    ELSE Toggled(IF ~cr THEN TRUE ELSE ~r, cr, n - 1)

\* lines 195-200: n clicks on Pausar / Reanudar handled before React renders
\* (one click, or clicks dispatched in one batch)
TogglePause(n) ==
    /\ mounted
    /\ events < MaxEvents
    /\ events' = events + 1
    /\ \E sync \in {root = "concurrent"} :
          Commit(Toggled(running, running, n), seeds, FALSE, speed, brush,
                 showGrid, paletteSeed, surface, sync)
    /\ ev' = (IF n = 1 THEN "toggle" ELSE "toggles")
    /\ UNCHANGED <<root, mounted, obj, queue, client, removed, ticks, drawn, cleared>>

\* A re-roll that also gives the new palette's hue to the seeds that exist.
RerollPaletteRecolors(ps) ==
    /\ mounted
    /\ events < MaxEvents
    /\ events' = events + 1
    /\ obj' = [r \in DOMAIN obj |-> [obj[r] EXCEPT !.hueBase = ps]]
    /\ \E sync \in {root = "concurrent"} :
          Commit(running, seeds, FALSE, speed, brush, showGrid, ps, surface, sync)
    /\ ev' = "palette"
    /\ UNCHANGED <<root, mounted, queue, client, removed, ticks, drawn, cleared>>

\* line 201
RerollPalette(ps) ==
    /\ mounted
    /\ events < MaxEvents
    /\ events' = events + 1
    /\ \E sync \in {root = "concurrent"} :
          Commit(running, seeds, FALSE, speed, brush, showGrid, ps, surface, sync)
    /\ ev' = "palette"
    /\ UNCHANGED <<root, mounted, obj, queue, client, removed, ticks, drawn, cleared>>

\* line 226: a change event of the input, whose value has changed
SetSpeed(sp) ==
    /\ mounted
    /\ sp # speed
    /\ events < MaxEvents
    /\ events' = events + 1
    /\ \E sync \in {root = "concurrent"} :
          Commit(running, seeds, FALSE, sp, brush, showGrid, paletteSeed, surface, sync)
    /\ ev' = "speed"
    /\ UNCHANGED <<root, mounted, obj, queue, client, removed, ticks, drawn, cleared>>

\* line 228: a change event of the input, whose value has changed
SetBrush(b) ==
    /\ mounted
    /\ b # brush
    /\ events < MaxEvents
    /\ events' = events + 1
    /\ \E sync \in {root = "concurrent"} :
          Commit(running, seeds, FALSE, speed, b, showGrid, paletteSeed, surface, sync)
    /\ ev' = "brush"
    /\ UNCHANGED <<root, mounted, obj, queue, client, removed, ticks, drawn, cleared>>

\* line 230: a change event of the input, whose value has changed
SetShowGrid(g) ==
    /\ mounted
    /\ g # showGrid
    /\ events < MaxEvents
    /\ events' = events + 1
    /\ \E sync \in {root = "concurrent"} :
          Commit(running, seeds, FALSE, speed, brush, g, paletteSeed, surface, sync)
    /\ ev' = "grid"
    /\ UNCHANGED <<root, mounted, obj, queue, client, removed, ticks, drawn, cleared>>

\* A resize handler that runs the whole effect body: it also calls
\* requestAnimationFrame(draw).
HandleResizeRestarts(c, dpr) ==
    /\ mounted
    /\ events < MaxEvents
    /\ events' = events + 1
    /\ client' = c
    /\ canvas' = Sized(c, dpr)
    /\ surface' = "blank"
    /\ rafs' = Setup(rafs, Closure(running, seeds, speed, brush, showGrid))
    /\ ev' = "resize"
    /\ UNCHANGED <<root, mounted, running, speed, brush, showGrid, seeds, paletteSeed, obj,
                   queue, effPending, removed, ticks, drawn, cleared>>

\* lines 97-101: a resize event; the listener of the current effect run handles it
HandleResize(c, dpr) ==
    /\ mounted
    /\ events < MaxEvents
    /\ events' = events + 1
    /\ client' = c
    /\ canvas' = Sized(c, dpr)
    /\ surface' = "blank"
    /\ ev' = "resize"
    /\ UNCHANGED <<root, mounted, running, speed, brush, showGrid, seeds, paletteSeed, obj,
                   queue, effPending, rafs, removed, ticks, drawn, cleared>>

\* lines 104-107: the component unmounts and React runs the cleanup
Unmount ==
    /\ mounted
    /\ mounted' = FALSE
    /\ rafs' = Cleanup(rafs)
    /\ ev' = "unmount"
    /\ UNCHANGED <<root, running, speed, brush, showGrid, seeds, paletteSeed, obj, queue,
                   effPending, canvas, client, surface, removed, ticks, drawn, events, cleared>>

\* lines 104-107: the cleanup function is called once more
CleanupAgain ==
    /\ ~mounted
    /\ rafs' = Cleanup(rafs)
    /\ ev' = "cleanup"
    /\ UNCHANGED <<root, mounted, running, speed, brush, showGrid, seeds, paletteSeed, obj,
                   queue, effPending, canvas, client, surface, removed, ticks, drawn, events, cleared>>

Next ==
    \/ \E i \in 1..Len(rafs) : Frame(i)
    \/ Render
    \/ FlushEffects
    \/ \E e \in PointerEvents, rect \in RectDraws, sz \in SizeDraws, j \in JitterDraws,
          id \in IdDraws : HandleCanvasDown(e, rect, sz, j, id)
    \/ Clear
    \/ \E n \in ClickDraws : TogglePause(n)
    \/ \E ps \in PaletteDraws : RerollPalette(ps)
    \/ \E sp \in SpeedDraws : SetSpeed(sp)
    \/ \E b \in BrushDraws : SetBrush(b)
    \/ \E g \in BOOLEAN : SetShowGrid(g)
    \/ \E c \in ClientSizeDraws, dpr \in DprDraws : HandleResize(c, dpr)
    \/ Unmount
    \/ CleanupAgain

Spec == Init /\ [][Next]_vars

\* ------------------------------------------------------------ liveness
\* A seed is due when its life is within DueMargin (0.04) of the limit of line 71.
Due(r) == obj[r].life + DueMargin > LifeLimit

\* draw, with no bound on the number of frames of a callback that iterates a
\* due seed
DueFrame(i) ==
    /\ i \in 1..Len(rafs)
    /\ rafs[i].c.running => \E r \in Members(rafs[i].c.seeds) : Due(r)
    /\ ticks' = ticks
    /\ Draw(i)

\* the id drawn by a plant of the liveness specification
LiveIdDraws == {"a"}

\* The mounted component: frames, React's steps, and the handlers that plant,
\* clear, pause and change the speed.
LiveNext ==
    \/ \E i \in 1..Len(rafs) : DueFrame(i)
    \/ Render
    \/ FlushEffects
    \/ \E e \in PointerEvents, rect \in RectDraws, sz \in SizeDraws, j \in JitterDraws,
          id \in LiveIdDraws : HandleCanvasDown(e, rect, sz, j, id)
    \/ Clear
    \/ \E n \in ClickDraws : TogglePause(n)
    \/ \E sp \in SpeedDraws : SetSpeed(sp)

\* The browser runs the pending animation-frame callbacks at the next
\* display refresh; React's scheduler runs a pending passive effect and
\* renders queued updates.
LiveSpec ==
    /\ Init
    /\ [][LiveNext]_vars
    /\ WF_vars(\E i \in 1..Len(rafs) : DueFrame(i))
    /\ WF_vars(FlushEffects)
    /\ WF_vars(Render)

\* ------------------------------------------------------------ properties
\* the population: the committed seeds state, which "Semillas" displays
Population == Members(seeds)
seedCount == Len(seeds)

\* the step is the callback rafs[i] drawing a frame while running
Drew(i) == i \in 1..Len(rafs) /\ rafs[i].c.running /\ Frame(i)

\* C1: in every frame executed while running, a seed of the population leaves
\* the population in that frame if and only if its life is > 120 or its size
\* is > 220 after the frame's growth step; and a seed that a frame has removed
\* is never a member of the population in a later state.
C1_RemovedIffExpired ==
    [][/\ ticks' = ticks + 1 =>
            \A r \in Population : (r \notin Members(seeds')) <=> Expired(obj'[r])
       /\ \A r \in removed' : r \notin Members(seeds')]_vars

C3_NoFrameAfterDispose ==
    ~mounted => rafs = <<>> /\ ev \in {"unmount", "cleanup"}

\* C4: while the running flag is cleared a callback that fires is a no-op,
\* and no step other than the one that clears or sets the flag leaves more
\* callbacks pending than it found.
C4_PausedSchedulesNothing ==
    [][/\ (~running /\ ev' = "frame") => UNCHANGED <<obj, seeds, queue, surface, ticks>>
       /\ (~running /\ ~running') => Len(rafs') <= Len(rafs)]_vars

\* C5: from a clear until the next plant the committed population is empty
\* and the displayed seed count is 0.
C5_ClearedStaysEmpty == cleared => seeds = <<>> /\ seedCount = 0

\* C6: the seeds of the population have pairwise distinct id values.
C6_DistinctIds ==
    \A i, j \in 1..Len(seeds) : i # j => obj[seeds[i]].id # obj[seeds[j]].id

\* C7: one mousedown or touchstart puts exactly one new seed in front of the
\* population, with life 0, size in [2, 8) and position (clientX - rect.left,
\* clientY - rect.top), and changes no seed that exists.
C7_PlantsOne ==
    [][ev' = "plant" =>
        LET new == obj'[Len(obj')]
        IN  /\ Len(obj') = Len(obj) + 1
            /\ seeds' = <<Len(obj')>> \o seeds
            /\ new.life = 0
            /\ new.size >= 20000 /\ new.size < 80000
            /\ \E e \in PointerEvents, rect \in RectDraws :
                 LET p == IF e.touches # <<>> THEN e.touches[1] ELSE e
                 IN  new.x = p.clientX - rect.left /\ new.y = p.clientY - rect.top
            /\ \A r \in DOMAIN obj : obj'[r] = obj[r]]_vars

C7_Witness == ev = "plant" /\ Len(seeds) >= 2 /\ ticks > 0

\* C8: the resize handler changes the canvas and nothing else: no seed, not
\* the population, not the running flag, not the pending callbacks.
C8_ResizeKeepsGarden ==
    [][ev' = "resize" =>
        UNCHANGED <<obj, seeds, queue, running, speed, brush, showGrid, paletteSeed,
                    rafs, effPending, mounted>>]_vars

C8_Witness == ev = "resize" /\ seeds # <<>> /\ ticks > 0 /\ canvas.w # 8

\* C9 as the spec states it: from life 0, size 5 and speed 1, one growth step
\* gives life 0.02 and 5 < size < 5 + 0.3 * (1 - 5 / 150).
C9_StrictlyBelowBound ==
    [][\A i \in 1..Len(rafs) : (Drew(i) /\ rafs[i].c.speed = 10) =>
         \A r \in Members(rafs[i].c.seeds) : (obj[r].life = 0 /\ obj[r].size = 50000) =>
            /\ obj'[r].life = 10
            /\ obj'[r].size > 50000
            /\ obj'[r].size < 50000 + (3000 - (3000 * 50000) \div SizeCeiling)]_vars

\* C9, amended: from life 0, size 5 and speed 1, one growth step gives life
\* 0.02 and size 5 + 0.3 * (1 - 5 / 150) = 5.29: above 5 and equal to the bound.
C9_EqualsBound ==
    [][\A i \in 1..Len(rafs) : (Drew(i) /\ rafs[i].c.speed = 10) =>
         \A r \in Members(rafs[i].c.seeds) : (obj[r].life = 0 /\ obj[r].size = 50000) =>
            /\ obj'[r].life = 10
            /\ obj'[r].size > 50000
            /\ obj'[r].size = 50000 + (3000 - (3000 * 50000) \div SizeCeiling)]_vars

C9_Witness ==
    /\ ev = "frame"
    /\ ticks = 1
    /\ speed = 10
    /\ \E r \in Population : obj[r].life = 10 /\ obj[r].size = 52900

\* C10: no step changes the hueBase of a seed, a palette re-roll changes no
\* seed and not the population, and a seed planted after it takes its hue from
\* the new palette seed.
C10_HueFixed ==
    [][/\ \A r \in DOMAIN obj : obj'[r].hueBase = obj[r].hueBase
       /\ ev' = "palette" => UNCHANGED <<obj, seeds, queue>>
       /\ ev' = "plant" =>
            \E j \in JitterDraws : obj'[Len(obj')].hueBase = (paletteSeed + j) % 10]_vars

C10_Witness ==
    /\ ev = "plant"
    /\ \E r, n \in Population :
         /\ obj[r].hueBase \notin {(paletteSeed + j) % 10 : j \in JitterDraws}
         /\ obj[n].hueBase \in {(paletteSeed + j) % 10 : j \in JitterDraws}
         /\ obj[n].life = 0

\* C11: the spawn count is a non-negative integer: every count the last frame
\* could compute, and the count of every seed that exists at every speed of
\* the slider and every draw of Math.random().
C11_SpawnCountNatural ==
    /\ \A n \in drawn.counts : n \in Nat
    /\ \A r \in DOMAIN obj, sp \in SpeedDraws \cup {speed}, rnd \in RandomDraws :
          SpawnCount(obj[r], sp, rnd) \in Nat

C11_Witness ==
    /\ ev = "frame"
    /\ 0 \in drawn.counts
    /\ \E n \in drawn.counts : n > 0
    /\ \E r \in Population : obj[r].life > 0 /\ obj[r].life < BloomAge

\* C12: the alpha of every pixel the last frame could draw lies in [0, 0.8];
\* the divisor size + 1 of line 60 is not 0 for any seed that exists; and a
\* seed of size 0 gives an alpha in [0, 0.8] too.
C12_AlphaInRange ==
    /\ \A a \in drawn.alphas : a >= 0 /\ a <= 800
    /\ \A r \in DOMAIN obj : obj[r].size + 10000 # 0
    /\ \A rnd \in RandomDraws :
          LET a == Alpha(Planted(0, 0, 0, 0, "a"), rnd) IN a >= 0 /\ a <= 800

C12_Witness ==
    /\ ev = "frame"
    /\ 800 \in drawn.alphas
    /\ \E a \in drawn.alphas : a < 200

\* C13: a resize event that finds the canvas with client width or height 0
\* leaves the backing buffer as it was, and the buffer's width and height
\* are not 0.
C13_ZeroAreaResizeIsNoOp ==
    [][(ev' = "resize" /\ (client'.w = 0 \/ client'.h = 0)) =>
         (canvas' = canvas /\ canvas'.w # 0 /\ canvas'.h # 0)]_vars

\* C14: one invocation of togglePause leaves the running flag negated, and
\* two invocations with no render between them leave it as it was.
C14_ToggleTwiceRestores ==
    [][/\ ev' = "toggle" => running' = ~running
       /\ ev' = "toggles" => running' = running]_vars

\* C15 as the spec states it: a frame drawn while running gives every seed it
\* iterates life + 0.02 * speed and size + 0.3 * speed * (1 - size / 150) * f,
\* with f = 1 when the life before the step is < 10 and f = 0.1 otherwise.
C15_FactorFromAgeBefore ==
    [][\A i \in 1..Len(rafs) : Drew(i) =>
         \A r \in Members(rafs[i].c.seeds) :
            LET sp == rafs[i].c.speed
                f10 == IF obj[r].life < BloomAge THEN 10 ELSE 1
            IN  /\ obj'[r].life = obj[r].life + sp
                /\ obj'[r].size = obj[r].size +
                      (3 * sp * f10 * (SizeCeiling - obj[r].size)) \div 150000]_vars

\* C15, amended: the same step with f = 1 when the life after the step is
\* < 10 and f = 0.1 otherwise.
C15_FactorFromAgeAfter ==
    [][\A i \in 1..Len(rafs) : Drew(i) =>
         \A r \in Members(rafs[i].c.seeds) :
            LET sp == rafs[i].c.speed
                f10 == IF obj'[r].life < BloomAge THEN 10 ELSE 1
            IN  /\ obj'[r].life = obj[r].life + sp
                /\ obj'[r].size = obj[r].size +
                      (3 * sp * f10 * (SizeCeiling - obj[r].size)) \div 150000]_vars

\* a frame has just taken a seed's life from below 10 to 10 or more
C15_Witness ==
    /\ ev = "frame"
    /\ \E r \in Population, i \in 1..Len(rafs) :
         /\ r \in Members(rafs[i].c.seeds)
         /\ obj[r].life >= BloomAge
         /\ obj[r].life - rafs[i].c.speed < BloomAge

\* C16: a callback that fires while the running flag is false changes no
\* seed, removes none, draws nothing and leaves no callback pending in its
\* place; and no step taken while the garden stays Paused changes a seed of
\* life 0.
C16_PausedFrameIsNoOp ==
    [][/\ (~running /\ ev' = "frame") =>
            /\ UNCHANGED <<obj, seeds, queue, surface, removed, drawn, ticks>>
            /\ Len(rafs') = Len(rafs) - 1
       /\ (~running /\ ~running') =>
            \A r \in DOMAIN obj : obj[r].life = 0 => obj'[r] = obj[r]]_vars

\* C17: at most one callback is pending and rafRef holds its handle; and
\* while the component is mounted and running, with no effect waiting to
\* run, exactly one callback is pending.
C17_OnePendingFrame ==
    /\ Len(rafs) <= 1
    /\ \A i \in 1..Len(rafs) : rafs[i].tracked
    /\ (mounted /\ running /\ ~effPending) => Len(rafs) = 1

\* C18: a seed of the population leaves it only in a step that is clear or
\* when it has expired (life > 120 or size > 220).
C18_KeptUntilExpiryOrClear ==
    [][\A r \in Population :
         r \notin Members(seeds') => (ev' = "clear" \/ Expired(obj'[r]))]_vars

\* C19: every seed's size is below 150, and every seed a frame has removed
\* has life > 120 and a size that is not > 220.
C19_SizeBelowCeiling ==
    /\ \A r \in DOMAIN obj : obj[r].size < SizeCeiling
    /\ \A r \in removed : obj[r].life > LifeLimit /\ obj[r].size <= SizeLimit

C19_Witness ==
    /\ ev = "frame"
    /\ speed = 30
    /\ removed # {}
    /\ \E r \in Population : obj[r].life > BloomAge /\ obj[r].life < LifeLimit

====
